---------------------------- MODULE Spec2Model ----------------------------
(***************************************************************************)
(* Model of the video CRUD service of ntex-app.                            *)
(*                                                                         *)
(* Two handler families work on the same table `videos`:                   *)
(*   - VideoService over VideoRepository (the /api/v1/videos routes),      *)
(*     specification Spec;                                                 *)
(*   - the api.rs handlers over db.rs (the /videos routes),                *)
(*     specification SpecDb.                                               *)
(* SpecList runs the list queries of both families on larger tables,       *)
(* SpecValidate the validators alone, SpecHttp the HTTP handlers of both   *)
(* families with failing storage statements, SpecBoth the two families    *)
(* side by side on the same requests, SpecApp the application of app.rs,   *)
(* SpecConc the /api/v1/videos handlers of concurrent requests statement   *)
(* by statement, and SpecPage the list queries with page or per_page 0.    *)
(*                                                                         *)
(* The table is a set of rows.  A string is a sequence of character codes. *)
(* An Option<T> value is a set with at most one element ({} is None).      *)
(* Timestamps are ranks of clock readings: `clock` is the last value       *)
(* Utc::now() returned.  Two readings of one handler that follow each      *)
(* other directly may be equal or the second later; the first reading of a *)
(* handler is later than every earlier reading, because every handler that *)
(* reads the clock goes through a storage round trip afterwards.           *)
(***************************************************************************)
EXTENDS Integers, Sequences, FiniteSets, TLC

VARIABLES videos, seq, clock, last, written, peer, tasks

vars == <<videos, seq, clock, last, written, peer, tasks>>

(***************************************************************************)
(* Bounds of the model.                                                    *)
(***************************************************************************)
MaxVideos == 2

MaxClock == 3

\* How far from a length bound the lengths of the validated strings range.
Slack == 2

\* Rows and clock readings of the runs that exercise the list queries.
MaxListVideos == 3

MaxListClock == 4

\* Rows and clock readings of the runs that go through the HTTP handlers.
MaxHttpVideos == 2

MaxHttpClock == 4

\* Concurrent runs: requests in flight, and the last clock value.
NumTasks == 2

MaxConcClock == 3

(***************************************************************************)
(* Program constants: the validator attributes of api.rs and the defaults  *)
(* of the list query.                                                      *)
(***************************************************************************)
TitleMin == 1

TitleMax == 100

YoutubeIdLen == 11

DefaultPage == 1

DefaultPerPage == 10

(***************************************************************************)
(* Inputs.                                                                 *)
(***************************************************************************)
Rep(c, n) == [i \in 1..n |-> c]

One(opt) == CHOOSE x \in opt : TRUE

Some(S) == {{x} : x \in S}

Option(S) == {{}} \cup Some(S)

ValidTitles == {<<97>>, Rep(98, TitleMax)}

InvalidTitles == {<<>>, Rep(98, TitleMax + 1)}

ValidYoutubeIds == {Rep(97, YoutubeIdLen), Rep(121, YoutubeIdLen)}

InvalidYoutubeIds == {Rep(121, YoutubeIdLen - 1), Rep(121, YoutubeIdLen + 1)}

\* Create requests: every valid pair, and every invalid value of one field
\* beside a valid value of the other.
CreateRequests ==
    (ValidTitles \X ValidYoutubeIds)
        \cup (InvalidTitles \X {Rep(97, YoutubeIdLen)})
        \cup ({<<97>>} \X InvalidYoutubeIds)

\* Update requests: each field absent, valid, or invalid.
UpdateTitles == Option(ValidTitles \cup {Rep(98, TitleMax + 1)})

UpdateYoutubeIds == Option(ValidYoutubeIds \cup {Rep(121, YoutubeIdLen - 1)})

IdInputs == 1..MaxVideos

Searches == {{}, {<<97>>}}

Pages == {{}, {1}, {2}}

PerPages == {{}, {1}}

(***************************************************************************)
(* entity/video.rs: the row and its ActiveModel.  An ActiveModel is the    *)
(* values of the columns that are Set or Unchanged (val) and the names of  *)
(* the columns that are Set (set); every other column is NotSet.           *)
(***************************************************************************)
Columns == {"id", "title", "youtube_id", "created_at", "updated_at", "deleted_at"}

SetCol(am, c, v) == [val |-> (c :> v) @@ am.val, set |-> am.set \cup {c}]

IntoActiveModel(row) == [val |-> row, set |-> {}]

ActiveModel_new_SkewedMutant(now) ==
    [val |-> [created_at |-> now, updated_at |-> now + 1],
     set |-> {"created_at", "updated_at"}]

ActiveModel_new(now) ==
    [val |-> [created_at |-> now, updated_at |-> now],
     set |-> {"created_at", "updated_at"}]

before_save_NoTouchMutant(am, insert, t1, t2) ==
    IF insert THEN SetCol(SetCol(am, "updated_at", t1), "created_at", t2) ELSE am

before_save_ResetCreatedMutant(am, insert, t1, t2) ==
    SetCol(SetCol(am, "updated_at", t1), "created_at", t2)

before_save(am, insert, t1, t2) ==
    LET this == SetCol(am, "updated_at", t1)
    IN  IF insert THEN SetCol(this, "created_at", t2) ELSE this

(***************************************************************************)
(* The statements the ORM sends to the table.                              *)
(***************************************************************************)
\* INSERT of the Set columns; id is the AUTOINCREMENT key, deleted_at is
\* nullable and NULL when not given.
ExecInsert(am, nextid) ==
    [id |-> IF "id" \in am.set THEN am.val.id ELSE nextid,
     title |-> am.val.title,
     youtube_id |-> am.val.youtube_id,
     created_at |-> am.val.created_at,
     updated_at |-> am.val.updated_at,
     deleted_at |-> IF "deleted_at" \in am.set THEN am.val.deleted_at ELSE {}]

UpdatedRow_WriteAllMutant(r, am) == [c \in Columns |-> am.val[c]]

\* UPDATE videos SET <the Set columns> WHERE id = <primary key>.
UpdatedRow(r, am) == [c \in Columns |-> IF c \in am.set THEN am.val[c] ELSE r[c]]

ExecUpdate(tbl, am) ==
    {IF r.id = am.val.id THEN UpdatedRow(r, am) ELSE r : r \in tbl}

\* The row an update returns (RETURNING, or the select by primary key).
Returning(tbl, am) == {r \in tbl : r.id = am.val.id}

(***************************************************************************)
(* api.rs: request validation and the response shape.                      *)
(***************************************************************************)
ValidLength(s, min, max) == Len(s) >= min /\ Len(s) <= max

CreateVideoRequest_validate_OffByOneMutant(title, youtube_id) ==
    /\ ValidLength(title, TitleMin, TitleMax + 1)
    /\ ValidLength(youtube_id, YoutubeIdLen, YoutubeIdLen)

CreateVideoRequest_validate(title, youtube_id) ==
    /\ ValidLength(title, TitleMin, TitleMax)
    /\ ValidLength(youtube_id, YoutubeIdLen, YoutubeIdLen)

UpdateVideoRequest_validate_RequiredMutant(title, youtube_id) ==
    /\ title # {} /\ ValidLength(One(title), TitleMin, TitleMax)
    /\ youtube_id # {} /\ ValidLength(One(youtube_id), YoutubeIdLen, YoutubeIdLen)

UpdateVideoRequest_validate(title, youtube_id) ==
    /\ \A t \in title : ValidLength(t, TitleMin, TitleMax)
    /\ \A y \in youtube_id : ValidLength(y, YoutubeIdLen, YoutubeIdLen)

VideoResponse(video) ==
    [id |-> video.id,
     title |-> video.title,
     youtube_id |-> video.youtube_id,
     created_at |-> video.created_at,
     updated_at |-> video.updated_at,
     deleted_at |-> video.deleted_at]

(***************************************************************************)
(* repositories/video_repository.rs.  Each operation gives the table after *)
(* it (tbl), what it returns (ret) and the statements it sent (calls).     *)
(***************************************************************************)
VideoRepository_create_ReuseIdMutant(tbl, nextid, title, youtube_id, now) ==
    LET am == SetCol(SetCol(ActiveModel_new(now), "title", title),
                     "youtube_id", youtube_id)
        n == Cardinality({r \in tbl : r.deleted_at = {}}) + 1
        video == ExecInsert(am, n)
    IN  [tbl |-> tbl \cup {video}, ret |-> video, calls |-> <<"INSERT">>]

VideoRepository_create(tbl, nextid, title, youtube_id, now) ==
    LET am == SetCol(SetCol(ActiveModel_new(now), "title", title),
                     "youtube_id", youtube_id)
        video == ExecInsert(am, nextid)
    IN  [tbl |-> tbl \cup {video}, ret |-> video, calls |-> <<"INSERT">>]

VideoRepository_find_by_id_NoFilterMutant(tbl, id) ==
    {r \in tbl : r.id = id}

VideoRepository_find_by_id(tbl, id) ==
    {r \in tbl : r.id = id /\ r.deleted_at = {}}

VideoRepository_update_SwapMutant(tbl, id, title, youtube_id, now) ==
    LET found == VideoRepository_find_by_id(tbl, id)
    IN  IF found = {}
        THEN [tbl |-> tbl, ret |-> {}, calls |-> <<"SELECT">>]
        ELSE LET am0 == IntoActiveModel(One(found))
                 am1 == IF title # {}
                        THEN SetCol(am0, "title", One(title)) ELSE am0
                 am2 == IF title # {} /\ youtube_id # {}
                        THEN SetCol(am1, "youtube_id", One(youtube_id)) ELSE am1
                 am3 == before_save(am2, FALSE, now, now)
                 tbl2 == ExecUpdate(tbl, am3)
             IN  [tbl |-> tbl2, ret |-> Returning(tbl2, am3),
                  calls |-> <<"SELECT", "UPDATE">>]

VideoRepository_update(tbl, id, title, youtube_id, now) ==
    LET found == VideoRepository_find_by_id(tbl, id)
    IN  IF found = {}
        THEN [tbl |-> tbl, ret |-> {}, calls |-> <<"SELECT">>]
        ELSE LET am0 == IntoActiveModel(One(found))
                 am1 == IF title # {}
                        THEN SetCol(am0, "title", One(title)) ELSE am0
                 am2 == IF youtube_id # {}
                        THEN SetCol(am1, "youtube_id", One(youtube_id)) ELSE am1
                 am3 == before_save(am2, FALSE, now, now)
                 tbl2 == ExecUpdate(tbl, am3)
             IN  [tbl |-> tbl2, ret |-> Returning(tbl2, am3),
                  calls |-> <<"SELECT", "UPDATE">>]

VideoRepository_delete_HardDeleteMutant(tbl, id, t1, t2) ==
    LET found == VideoRepository_find_by_id(tbl, id)
    IN  IF found = {}
        THEN [tbl |-> tbl, ret |-> FALSE, calls |-> <<"SELECT">>]
        ELSE [tbl |-> tbl \ found, ret |-> TRUE, calls |-> <<"SELECT", "UPDATE">>]

\* t1 is the reading written to deleted_at, t2 the one before_save takes.
VideoRepository_delete(tbl, id, t1, t2) ==
    LET found == VideoRepository_find_by_id(tbl, id)
    IN  IF found = {}
        THEN [tbl |-> tbl, ret |-> FALSE, calls |-> <<"SELECT">>]
        ELSE LET am0 == IntoActiveModel(One(found))
                 am1 == SetCol(am0, "deleted_at", {t1})
                 am2 == before_save(am1, FALSE, t2, t2)
             IN  [tbl |-> ExecUpdate(tbl, am2), ret |-> TRUE,
                  calls |-> <<"SELECT", "UPDATE">>]


\* LIKE '%sub%' on a column.
Contains(s, sub) ==
    \E i \in 1..(Len(s) - Len(sub) + 1) : SubSeq(s, i, i + Len(sub) - 1) = sub

RECURSIVE OrderByDesc(_, _)
OrderByDesc(S, col) ==
    IF S = {} THEN <<>>
    ELSE LET m == CHOOSE r \in S : \A o \in S : o[col] <= r[col]
         IN  <<m>> \o OrderByDesc(S \ {m}, col)

Min(a, b) == IF a <= b THEN a ELSE b

OffsetLimit_SkipFirstMutant(rows, offset, limit) ==
    SubSeq(rows, offset + 2, Min(offset + limit, Len(rows)))

\* OFFSET offset LIMIT limit on an ordered result.
OffsetLimit(rows, offset, limit) ==
    SubSeq(rows, offset + 1, Min(offset + limit, Len(rows)))

UnwrapOr(opt, default) == IF opt = {} THEN default ELSE One(opt)

VideoRepository_list(tbl, page_opt, per_page_opt, search) ==
    LET page == UnwrapOr(page_opt, DefaultPage)
        per_page == UnwrapOr(per_page_opt, DefaultPerPage)
        active == {r \in tbl : r.deleted_at = {}}
        matching == IF search # {}
                    THEN {r \in active : Contains(r.title, One(search))}
                    ELSE active
        ordered == OrderByDesc(matching, "created_at")
        total == Cardinality(matching)
        fetched == OffsetLimit(ordered, (page - 1) * per_page, per_page)
    IN  [videos |-> fetched, total |-> total, calls |-> <<"COUNT", "SELECT">>]

(***************************************************************************)
(* services/video_service.rs.  result is "Ok" or the AppError variant.     *)
(***************************************************************************)
VideoService_create_video(tbl, nextid, title, youtube_id, now) ==
    IF ~CreateVideoRequest_validate(title, youtube_id)
    THEN [tbl |-> tbl, result |-> "Validation", video |-> {}, calls |-> <<>>]
    ELSE LET r == VideoRepository_create(tbl, nextid, title, youtube_id, now)
         IN  [tbl |-> r.tbl, result |-> "Ok",
              video |-> {VideoResponse(r.ret)}, calls |-> r.calls]

VideoService_get_video(tbl, id) ==
    LET video == VideoRepository_find_by_id(tbl, id)
    IN  IF video = {}
        THEN [result |-> "NotFound", video |-> {}, calls |-> <<"SELECT">>]
        ELSE [result |-> "Ok", video |-> {VideoResponse(One(video))},
              calls |-> <<"SELECT">>]

VideoService_update_video_SwallowMissingMutant(tbl, id, title, youtube_id, now) ==
    IF ~UpdateVideoRequest_validate(title, youtube_id)
    THEN [tbl |-> tbl, result |-> "Validation", video |-> {}, calls |-> <<>>]
    ELSE LET r == VideoRepository_update(tbl, id, title, youtube_id, now)
         IN  IF r.ret = {}
             THEN [tbl |-> r.tbl, result |-> "Ok", video |-> {}, calls |-> r.calls]
             ELSE [tbl |-> r.tbl, result |-> "Ok",
                   video |-> {VideoResponse(One(r.ret))}, calls |-> r.calls]

VideoService_update_video_LookupFirstMutant(tbl, id, title, youtube_id, now) ==
    IF VideoRepository_find_by_id(tbl, id) = {}
    THEN [tbl |-> tbl, result |-> "NotFound", video |-> {}, calls |-> <<"SELECT">>]
    ELSE IF ~UpdateVideoRequest_validate(title, youtube_id)
    THEN [tbl |-> tbl, result |-> "Validation", video |-> {}, calls |-> <<"SELECT">>]
    ELSE LET r == VideoRepository_update(tbl, id, title, youtube_id, now)
         IN  [tbl |-> r.tbl, result |-> "Ok",
              video |-> {VideoResponse(One(r.ret))}, calls |-> r.calls]

VideoService_update_video(tbl, id, title, youtube_id, now) ==
    IF ~UpdateVideoRequest_validate(title, youtube_id)
    THEN [tbl |-> tbl, result |-> "Validation", video |-> {}, calls |-> <<>>]
    ELSE LET r == VideoRepository_update(tbl, id, title, youtube_id, now)
         IN  IF r.ret = {}
             THEN [tbl |-> r.tbl, result |-> "NotFound", video |-> {},
                   calls |-> r.calls]
             ELSE [tbl |-> r.tbl, result |-> "Ok",
                   video |-> {VideoResponse(One(r.ret))}, calls |-> r.calls]

VideoService_delete_video_IdempotentMutant(tbl, id, t1, t2) ==
    LET r == VideoRepository_delete(tbl, id, t1, t2)
    IN  [tbl |-> r.tbl, result |-> "Ok", calls |-> r.calls]

VideoService_delete_video(tbl, id, t1, t2) ==
    LET r == VideoRepository_delete(tbl, id, t1, t2)
    IN  IF ~r.ret
        THEN [tbl |-> r.tbl, result |-> "NotFound", calls |-> r.calls]
        ELSE [tbl |-> r.tbl, result |-> "Ok", calls |-> r.calls]

CeilDiv_FloorMutant(total, per_page) == total \div per_page

\* A u64 of 2^63 or more is written as its value minus 2^64, so that the
\* wrapping u64 operations are the integer ones; u64::MAX is -1.
U64_MAX == 0 - 1

\* total as f64 / per_page as f64, ceil, as u64.  Dividing by 0.0 gives
\* +inf (u64::MAX after the cast) or, for 0.0 / 0.0, NaN (0 after the cast).
CeilDiv(total, per_page) ==
    IF per_page = 0
    THEN IF total = 0 THEN 0 ELSE U64_MAX
    ELSE (total + per_page - 1) \div per_page

VideoService_list_videos(tbl, page_opt, per_page_opt, search) ==
    LET r == VideoRepository_list(tbl, page_opt, per_page_opt, search)
        page == UnwrapOr(page_opt, DefaultPage)
        per_page == UnwrapOr(per_page_opt, DefaultPerPage)
        total_pages == CeilDiv(r.total, per_page)
    IN  [result |-> "Ok",
         videos |-> [i \in 1..Len(r.videos) |-> VideoResponse(r.videos[i])],
         total |-> r.total, page |-> page, per_page |-> per_page,
         total_pages |-> total_pages, calls |-> r.calls]

(***************************************************************************)
(* The state machine.  `last` is the last call and what it returned;       *)
(* `written` is a history variable: for every id a create returned, the    *)
(* title and youtube_id of the most recent successful write to it.         *)
(***************************************************************************)
NoQuery ==
    [page |-> {}, per_page |-> {}, search |-> {}, order_by |-> {},
     order_direction |-> {}]

NoCall ==
    [op |-> "none", id |-> 0, title |-> {}, youtube_id |-> {}, search |-> {},
     result |-> "none", status |-> 0, video |-> {}, videos |-> <<>>, total |-> 0,
     page |-> 0, per_page |-> 0, total_pages |-> 0, calls |-> <<>>,
     query |-> NoQuery, body |-> {}, route |-> "", fault |-> {},
     content_type |-> "", overflow |-> FALSE]

\* The /videos application when it is driven side by side with /api/v1/videos.
NoPeer == [videos |-> {}, seq |-> 1, last |-> NoCall]

\* The requests in flight when handlers run concurrently: the position of
\* each handler between its storage statements and what it holds there.
Tasks == 1..NumTasks

NoTask ==
    [pc |-> "idle", op |-> "none", id |-> 0, title |-> {}, youtube_id |-> {},
     query |-> NoQuery, found |-> {}, am |-> {}, total |-> 0, result |-> "none",
     video |-> {}, videos |-> <<>>, page |-> 0, per_page |-> 0, total_pages |-> 0]

NoTasks == [p \in Tasks |-> NoTask]

Sent(calls, stmt) == \E i \in DOMAIN calls : calls[i] = stmt

Init ==
    /\ videos = {}
    /\ seq = 1
    /\ clock = 0
    /\ last = NoCall
    /\ written = <<>>
    /\ peer = NoPeer
    /\ tasks = NoTasks

CreateVideo ==
    \E req \in CreateRequests :
        LET title == req[1]
            youtube_id == req[2]
        IN  \E out \in
                {VideoService_create_video(videos, seq, title, youtube_id, clock + 1)} :
                LET wrote == Sent(out.calls, "INSERT")
                IN  /\ wrote => (seq <= MaxVideos /\ clock < MaxClock)
                    /\ videos' = out.tbl
                    /\ seq' = IF wrote THEN seq + 1 ELSE seq
                    /\ clock' = IF wrote THEN clock + 1 ELSE clock
                    /\ UNCHANGED <<peer, tasks>>
                    /\ last' = [NoCall EXCEPT !.op = "create_video", !.title = {title},
                                  !.youtube_id = {youtube_id}, !.result = out.result,
                                  !.video = out.video, !.calls = out.calls]
                    /\ written' = IF out.result = "Ok"
                                  THEN (One(out.video).id :>
                                           [title |-> title, youtube_id |-> youtube_id])
                                       @@ written
                                  ELSE written

GetVideo ==
    \E id \in IdInputs :
        \E out \in
            {VideoService_get_video(videos, id)} :
            /\ UNCHANGED <<peer, tasks>>
            /\ last' = [NoCall EXCEPT !.op = "get_video", !.id = id,
                          !.result = out.result, !.video = out.video,
                          !.calls = out.calls]
            /\ UNCHANGED <<videos, seq, clock, written>>

UpdateVideo ==
    \E id \in IdInputs, title \in UpdateTitles, youtube_id \in UpdateYoutubeIds :
        \E out \in
            {VideoService_update_video(videos, id, title, youtube_id, clock + 1)} :
            LET wrote == Sent(out.calls, "UPDATE")
            IN  /\ wrote => clock < MaxClock
                /\ videos' = out.tbl
                /\ clock' = IF wrote THEN clock + 1 ELSE clock
                /\ UNCHANGED <<peer, tasks>>
                /\ last' = [NoCall EXCEPT !.op = "update_video", !.id = id,
                              !.title = title, !.youtube_id = youtube_id,
                              !.result = out.result, !.video = out.video,
                              !.calls = out.calls]
                /\ written' = IF out.result = "Ok" /\ id \in DOMAIN written
                              THEN [written EXCEPT ![id] =
                                      [title |-> UnwrapOr(title, @.title),
                                       youtube_id |-> UnwrapOr(youtube_id, @.youtube_id)]]
                              ELSE written
                /\ UNCHANGED seq

DeleteVideo ==
    \E id \in IdInputs, tick \in 0..1 :
        LET t1 == clock + 1
            t2 == t1 + tick
        IN  \E out \in
                {VideoService_delete_video(videos, id, t1, t2)} :
                LET wrote == Sent(out.calls, "UPDATE")
                IN  /\ wrote => t2 <= MaxClock
                    /\ videos' = out.tbl
                    /\ clock' = IF wrote THEN t2 ELSE clock
                    /\ UNCHANGED <<peer, tasks>>
                    /\ last' = [NoCall EXCEPT !.op = "delete_video", !.id = id,
                                  !.result = out.result, !.calls = out.calls]
                    /\ UNCHANGED <<seq, written>>

ListVideos ==
    \E page \in Pages, per_page \in PerPages, search \in Searches :
        \E out \in
            {VideoService_list_videos(videos, page, per_page, search)} :
            /\ UNCHANGED <<peer, tasks>>
            /\ last' = [NoCall EXCEPT !.op = "list_videos", !.search = search,
                          !.result = out.result, !.videos = out.videos,
                          !.total = out.total, !.page = out.page,
                          !.per_page = out.per_page,
                          !.total_pages = out.total_pages, !.calls = out.calls]
            /\ UNCHANGED <<videos, seq, clock, written>>

Next == CreateVideo \/ GetVideo \/ UpdateVideo \/ DeleteVideo \/ ListVideos

Spec == Init /\ [][Next]_vars


(***************************************************************************)
(* db.rs and the api.rs handlers over it (the /videos routes).             *)
(***************************************************************************)
\* t0 is the reading of the struct literal, t1 the one of Default::default()
\* (ActiveModel::new), t2 and t3 the two of before_save.
db_create_video(tbl, nextid, title, youtube_id, t0, t1, t2, t3) ==
    LET video == SetCol(SetCol(SetCol(ActiveModel_new(t1), "title", title),
                               "youtube_id", youtube_id),
                        "created_at", t0)
        saved == before_save(video, TRUE, t2, t3)
        result == ExecInsert(saved, nextid)
    IN  [tbl |-> tbl \cup {result}, ret |-> result, calls |-> <<"INSERT">>]

db_get_video(tbl, id) == {r \in tbl : r.id = id}

db_update_video(tbl, id, title, youtube_id, now) ==
    LET video == db_get_video(tbl, id)
    IN  IF video = {}
        THEN [tbl |-> tbl, ret |-> {}, calls |-> <<"SELECT">>]
        ELSE LET am0 == IntoActiveModel(One(video))
                 am1 == IF title # {}
                        THEN SetCol(am0, "title", One(title)) ELSE am0
                 am2 == IF youtube_id # {}
                        THEN SetCol(am1, "youtube_id", One(youtube_id)) ELSE am1
                 am3 == before_save(am2, FALSE, now, now)
                 tbl2 == ExecUpdate(tbl, am3)
             IN  [tbl |-> tbl2, ret |-> Returning(tbl2, am3),
                  calls |-> <<"SELECT", "UPDATE">>]

\* DELETE FROM videos WHERE id = ?; rows_affected > 0.
db_delete_video(tbl, id) ==
    [tbl |-> {r \in tbl : r.id # id},
     ret |-> \E r \in tbl : r.id = id,
     calls |-> <<"DELETE">>]

api_create_video(tbl, nextid, title, youtube_id, t0, t1, t2, t3) ==
    IF ~CreateVideoRequest_validate(title, youtube_id)
    THEN [tbl |-> tbl, result |-> "Validation", status |-> 400, video |-> {},
          calls |-> <<>>]
    ELSE LET r == db_create_video(tbl, nextid, title, youtube_id, t0, t1, t2, t3)
         IN  [tbl |-> r.tbl, result |-> "Ok", status |-> 201,
              video |-> {VideoResponse(r.ret)}, calls |-> r.calls]

api_get_video(tbl, id) ==
    LET video == db_get_video(tbl, id)
    IN  IF video = {}
        THEN [result |-> "NotFound", status |-> 404, video |-> {},
              calls |-> <<"SELECT">>]
        ELSE [result |-> "Ok", status |-> 200,
              video |-> {VideoResponse(One(video))}, calls |-> <<"SELECT">>]

api_update_video(tbl, id, title, youtube_id, now) ==
    IF ~UpdateVideoRequest_validate(title, youtube_id)
    THEN [tbl |-> tbl, result |-> "Validation", status |-> 400, video |-> {},
          calls |-> <<>>]
    ELSE LET r == db_update_video(tbl, id, title, youtube_id, now)
         IN  IF r.ret = {}
             THEN [tbl |-> r.tbl, result |-> "NotFound", status |-> 404,
                   video |-> {}, calls |-> r.calls]
             ELSE [tbl |-> r.tbl, result |-> "Ok", status |-> 200,
                   video |-> {VideoResponse(One(r.ret))}, calls |-> r.calls]

api_delete_video(tbl, id) ==
    LET r == db_delete_video(tbl, id)
    IN  IF r.ret
        THEN [tbl |-> r.tbl, result |-> "Ok", status |-> 200, calls |-> r.calls]
        ELSE [tbl |-> r.tbl, result |-> "NotFound", status |-> 404,
              calls |-> r.calls]

DbCreateVideo ==
    \E req \in CreateRequests, d1 \in 0..1, d2 \in 0..1, d3 \in 0..1 :
        LET title == req[1]
            youtube_id == req[2]
            t0 == clock + 1
            t1 == t0 + d1
            t2 == t1 + d2
            t3 == t2 + d3
        IN  \E out \in
                {api_create_video(videos, seq, title, youtube_id, t0, t1, t2, t3)} :
                LET wrote == Sent(out.calls, "INSERT")
                IN  /\ wrote => (seq <= MaxVideos /\ t3 <= MaxClock)
                    /\ videos' = out.tbl
                    /\ seq' = IF wrote THEN seq + 1 ELSE seq
                    /\ clock' = IF wrote THEN t3 ELSE clock
                    /\ UNCHANGED <<peer, tasks>>
                    /\ last' = [NoCall EXCEPT !.op = "create_video", !.title = {title},
                                  !.youtube_id = {youtube_id}, !.result = out.result,
                                  !.status = out.status, !.video = out.video,
                                  !.calls = out.calls]
                    /\ UNCHANGED written

DbGetVideo ==
    \E id \in IdInputs :
        \E out \in
            {api_get_video(videos, id)} :
            /\ UNCHANGED <<peer, tasks>>
            /\ last' = [NoCall EXCEPT !.op = "get_video", !.id = id,
                          !.result = out.result, !.status = out.status,
                          !.video = out.video, !.calls = out.calls]
            /\ UNCHANGED <<videos, seq, clock, written>>

DbUpdateVideo ==
    \E id \in IdInputs, title \in UpdateTitles, youtube_id \in UpdateYoutubeIds :
        \E out \in
            {api_update_video(videos, id, title, youtube_id, clock + 1)} :
            LET wrote == Sent(out.calls, "UPDATE")
            IN  /\ wrote => clock < MaxClock
                /\ videos' = out.tbl
                /\ clock' = IF wrote THEN clock + 1 ELSE clock
                /\ UNCHANGED <<peer, tasks>>
                /\ last' = [NoCall EXCEPT !.op = "update_video", !.id = id,
                              !.title = title, !.youtube_id = youtube_id,
                              !.result = out.result, !.status = out.status,
                              !.video = out.video, !.calls = out.calls]
                /\ UNCHANGED <<seq, written>>

DbDeleteVideo ==
    \E id \in IdInputs :
        \E out \in
            {api_delete_video(videos, id)} :
            /\ videos' = out.tbl
            /\ UNCHANGED <<peer, tasks>>
            /\ last' = [NoCall EXCEPT !.op = "delete_video", !.id = id,
                          !.result = out.result, !.status = out.status,
                          !.calls = out.calls]
            /\ UNCHANGED <<seq, clock, written>>

NextDb == DbCreateVideo \/ DbGetVideo \/ DbUpdateVideo \/ DbDeleteVideo

SpecDb == Init /\ [][NextDb]_vars


(***************************************************************************)
(* The list queries.  Both list handlers read the same videos table; the   *)
(* runs below fill it through the service and query it through either      *)
(* handler.  Strings are sequences of character codes.                     *)
(***************************************************************************)
S_title == <<116, 105, 116, 108, 101>>

S_youtube_id == <<121, 111, 117, 116, 117, 98, 101, 95, 105, 100>>

S_created_at == <<99, 114, 101, 97, 116, 101, 100, 95, 97, 116>>

S_asc == <<97, 115, 99>>

S_desc == <<100, 101, 115, 99>>

S_ASC == <<65, 83, 67>>

S_other == <<105, 100>>

\* str::to_lowercase on ASCII.
to_lowercase(s) ==
    [i \in 1..Len(s) |-> IF s[i] >= 65 /\ s[i] <= 90 THEN s[i] + 32 ELSE s[i]]

\* Comparison of TEXT values under the BINARY collation.
LexLeq(a, b) ==
    \/ \E i \in 1..Min(Len(a), Len(b)) :
          /\ a[i] < b[i]
          /\ \A j \in 1..(i - 1) : a[j] = b[j]
    \/ /\ Len(a) <= Len(b)
       /\ \A j \in 1..Len(a) : a[j] = b[j]

ColLeq(col, x, y) == IF col = "created_at" THEN x <= y ELSE LexLeq(x, y)

\* ORDER BY col ASC|DESC.  Rows equal in col come in an order SQLite does
\* not promise; CHOOSE fixes one.
RECURSIVE OrderBy(_, _, _)
OrderBy(S, col, asc) ==
    IF S = {} THEN <<>>
    ELSE LET first == CHOOSE r \in S : \A o \in S :
                          IF asc THEN ColLeq(col, r[col], o[col])
                                 ELSE ColLeq(col, o[col], r[col])
         IN  <<first>> \o OrderBy(S \ {first}, col, asc)

db_list_videos(tbl, query) ==
    LET page == UnwrapOr(query.page, DefaultPage)
        per_page == UnwrapOr(query.per_page, DefaultPerPage)
        offset == (page - 1) * per_page
        matching == IF query.search # {}
                    THEN {r \in tbl : \/ Contains(r.title, One(query.search))
                                      \/ Contains(r.youtube_id, One(query.search))}
                    ELSE tbl
        order_by == UnwrapOr(query.order_by, S_created_at)
        order_direction == UnwrapOr(query.order_direction, S_desc)
        order_by_col == IF order_by = S_title THEN "title"
                        ELSE IF order_by = S_youtube_id THEN "youtube_id"
                        ELSE "created_at"
        ordered == OrderBy(matching, order_by_col, to_lowercase(order_direction) = S_asc)
        total == Cardinality(matching)
        fetched == OffsetLimit(ordered, offset, per_page)
    IN  [videos |-> fetched, total |-> total, page |-> page, per_page |-> per_page,
         total_pages |-> CeilDiv(total, per_page), calls |-> <<"COUNT", "SELECT">>]

api_list_videos(tbl, query) ==
    LET r == db_list_videos(tbl, query)
    IN  [result |-> "Ok", status |-> 200,
         videos |-> [i \in 1..Len(r.videos) |-> VideoResponse(r.videos[i])],
         total |-> r.total, page |-> r.page, per_page |-> r.per_page,
         total_pages |-> r.total_pages, calls |-> r.calls]

Query(page, per_page, search, order_by, order_direction) ==
    [page |-> page, per_page |-> per_page, search |-> search,
     order_by |-> order_by, order_direction |-> order_direction]

ListPerPages == {{}, {1}, {2}}

ListSearches == {{<<97>>}, {<<>>}}

OrderBys == Option({S_title, S_youtube_id, S_created_at, S_other})

OrderDirections == Option({S_asc, S_desc, S_ASC, S_other})

ListQueries ==
    {Query(page, per_page, {}, {}, {}) : page \in Pages, per_page \in ListPerPages}
    \cup {Query({}, per_page, search, {}, {}) :
             per_page \in PerPages, search \in ListSearches}
    \cup {Query({}, {}, {}, order_by, order_direction) :
             order_by \in OrderBys, order_direction \in OrderDirections}

ListCreateRequests ==
    {<<<<97>>, Rep(121, YoutubeIdLen)>>,
     <<<<98>>, Rep(97, YoutubeIdLen)>>,
     <<<<98>>, Rep(121, YoutubeIdLen)>>}

ListCreateVideo ==
    \E req \in ListCreateRequests :
        \E out \in
            {VideoService_create_video(videos, seq, req[1], req[2], clock + 1)} :
            /\ seq <= MaxListVideos
            /\ clock < MaxListClock
            /\ videos' = out.tbl
            /\ seq' = seq + 1
            /\ clock' = clock + 1
            /\ UNCHANGED <<peer, tasks>>
            /\ last' = [NoCall EXCEPT !.op = "create_video", !.title = {req[1]},
                          !.youtube_id = {req[2]}, !.result = out.result,
                          !.video = out.video, !.calls = out.calls]
            /\ UNCHANGED written

ListDeleteVideo ==
    \E id \in 1..MaxListVideos, tick \in 0..1 :
        LET t1 == clock + 1
            t2 == t1 + tick
        IN  \E out \in
                {VideoService_delete_video(videos, id, t1, t2)} :
                LET wrote == Sent(out.calls, "UPDATE")
                IN  /\ wrote => t2 <= MaxListClock
                    /\ videos' = out.tbl
                    /\ clock' = IF wrote THEN t2 ELSE clock
                    /\ UNCHANGED <<peer, tasks>>
                    /\ last' = [NoCall EXCEPT !.op = "delete_video", !.id = id,
                                  !.result = out.result, !.calls = out.calls]
                    /\ UNCHANGED <<seq, written>>

\* repository.list reads page, per_page and search of the query.
ListVideosQuery ==
    \E query \in ListQueries :
        \E out \in
            {VideoService_list_videos(videos, query.page, query.per_page,
                                      query.search)} :
            /\ UNCHANGED <<peer, tasks>>
            /\ last' = [NoCall EXCEPT !.op = "list_videos", !.query = query,
                          !.search = query.search,
                          !.result = out.result, !.videos = out.videos,
                          !.total = out.total, !.page = out.page,
                          !.per_page = out.per_page,
                          !.total_pages = out.total_pages, !.calls = out.calls]
            /\ UNCHANGED <<videos, seq, clock, written>>

DbListVideos ==
    \E query \in ListQueries :
        \E out \in
            {api_list_videos(videos, query)} :
            /\ UNCHANGED <<peer, tasks>>
            /\ last' = [NoCall EXCEPT !.op = "db_list_videos", !.query = query,
                          !.search = query.search,
                          !.result = out.result, !.status = out.status,
                          !.videos = out.videos,
                          !.total = out.total, !.page = out.page,
                          !.per_page = out.per_page,
                          !.total_pages = out.total_pages, !.calls = out.calls]
            /\ UNCHANGED <<videos, seq, clock, written>>

NextList == ListCreateVideo \/ ListDeleteVideo \/ ListVideosQuery \/ DbListVideos

SpecList == Init /\ [][NextList]_vars


(***************************************************************************)
(* The HTTP layer.  A response is a status and a JSON body (an Option: {}  *)
(* is no body).  A message is a sequence of the pieces format! joins.      *)
(* fault is the DbErr a statement of the handler fails with, {} for none:  *)
(* the failed statement changes nothing and `?` (or the Err arm) ends the  *)
(* handler.                                                                *)
(***************************************************************************)
DbErrs == {"connection pool timed out", "UNIQUE constraint failed: videos.youtube_id"}

Faults == Option(DbErrs)

\* ValidationErrors::to_string(): the fields that failed.
InvalidFields(title, youtube_id) ==
    (IF \E t \in title : ~ValidLength(t, TitleMin, TitleMax)
     THEN <<"title: length">> ELSE <<>>)
    \o (IF \E y \in youtube_id : ~ValidLength(y, YoutubeIdLen, YoutubeIdLen)
        THEN <<"youtube_id: length">> ELSE <<>>)

NotFoundMessage(id) == <<"Video with id ", ToString(id), " not found">>

\* error/mod.rs
AppError_error_response_NotFoundOkMutant(err) ==
    IF err.kind \in {"Database", "Internal"}
    THEN [status |-> 500, body |-> {[error |-> <<"Internal server error">>]}]
    ELSE IF err.kind = "NotFound"
    THEN [status |-> 200, body |-> {[error |-> err.msg]}]
    ELSE [status |-> 400, body |-> {[error |-> err.msg]}]

AppError_error_response(err) ==
    CASE err.kind = "Database" ->
            [status |-> 500, body |-> {[error |-> <<"Internal server error">>]}]
      [] err.kind = "Validation" ->
            [status |-> 400, body |-> {[error |-> err.msg]}]
      [] err.kind = "NotFound" ->
            [status |-> 404, body |-> {[error |-> err.msg]}]
      [] err.kind = "BadRequest" ->
            [status |-> 400, body |-> {[error |-> err.msg]}]
      [] err.kind = "Internal" ->
            [status |-> 500, body |-> {[error |-> <<"Internal server error">>]}]

\* error.rs
error_rs_AppError_error_response(err) ==
    LET sm == CASE err.kind = "Database" ->
                     <<500, <<"Internal server error">>>>
                [] err.kind = "ValidationError" -> <<400, err.msg>>
                [] err.kind = "NotFound" -> <<404, err.msg>>
                [] err.kind = "InternalServerError" ->
                     <<500, <<"Internal server error">>>>
    IN  [status |-> sm[1], body |-> {[error |-> sm[2]]}]

\* A handler of the controller: the service result, or the AppError that
\* `?` hands to error_response.
VideoController_response(tbl, new_tbl, out, fault, message, ok_status, ok_body) ==
    IF fault # {} /\ out.calls # <<>>
    THEN LET r == AppError_error_response([kind |-> "Database", msg |-> <<One(fault)>>])
         IN  [tbl |-> tbl, result |-> "Database", status |-> r.status,
              body |-> r.body, calls |-> <<out.calls[1]>>]
    ELSE IF out.result = "Ok"
    THEN [tbl |-> new_tbl, result |-> "Ok", status |-> ok_status, body |-> ok_body,
          calls |-> out.calls]
    ELSE LET r == AppError_error_response([kind |-> out.result, msg |-> message])
         IN  [tbl |-> new_tbl, result |-> out.result, status |-> r.status,
              body |-> r.body, calls |-> out.calls]

PaginatedVideoResponse(out) ==
    [videos |-> out.videos, total |-> out.total, page |-> out.page,
     per_page |-> out.per_page, total_pages |-> out.total_pages]

VideoController_create_video(tbl, nextid, title, youtube_id, now, fault) ==
    LET out == VideoService_create_video(tbl, nextid, title, youtube_id, now)
    IN  VideoController_response(tbl, out.tbl, out, fault,
                                 InvalidFields({title}, {youtube_id}), 201, out.video)

VideoController_list_videos(tbl, query, fault) ==
    LET out == VideoService_list_videos(tbl, query.page, query.per_page, query.search)
    IN  VideoController_response(tbl, tbl, out, fault, <<>>, 200,
                                 {PaginatedVideoResponse(out)})

VideoController_get_video(tbl, id, fault) ==
    LET out == VideoService_get_video(tbl, id)
    IN  VideoController_response(tbl, tbl, out, fault, NotFoundMessage(id), 200,
                                 out.video)

VideoController_update_video(tbl, id, title, youtube_id, now, fault) ==
    LET out == VideoService_update_video(tbl, id, title, youtube_id, now)
    IN  VideoController_response(tbl, out.tbl, out, fault,
                                 IF out.result = "Validation"
                                 THEN InvalidFields(title, youtube_id)
                                 ELSE NotFoundMessage(id),
                                 200, out.video)

VideoController_delete_video(tbl, id, t1, t2, fault) ==
    LET out == VideoService_delete_video(tbl, id, t1, t2)
    IN  VideoController_response(tbl, out.tbl, out, fault, NotFoundMessage(id), 204, {})

\* A handler of api.rs: its Ok arms, and the Err(e) arm that formats e.
api_response(tbl, new_tbl, out, fault, message, ok_body) ==
    IF fault # {} /\ out.calls # <<>>
    THEN [tbl |-> tbl, result |-> "Database", status |-> 500,
          body |-> {[error |-> <<"Database error: ", One(fault)>>]},
          calls |-> <<out.calls[1]>>]
    ELSE IF out.result = "Ok"
    THEN [tbl |-> new_tbl, result |-> "Ok", status |-> out.status, body |-> ok_body,
          calls |-> out.calls]
    ELSE [tbl |-> new_tbl, result |-> out.result, status |-> out.status,
          body |-> {[error |-> message]}, calls |-> out.calls]

api_create_video_http(tbl, nextid, title, youtube_id, now, fault) ==
    LET out == api_create_video(tbl, nextid, title, youtube_id, now, now, now, now)
    IN  api_response(tbl, out.tbl, out, fault,
                     <<"Validation error: ">> \o InvalidFields({title}, {youtube_id}),
                     out.video)

api_list_videos_http(tbl, query, fault) ==
    LET out == api_list_videos(tbl, query)
    IN  api_response(tbl, tbl, out, fault, <<>>, {PaginatedVideoResponse(out)})

api_get_video_http(tbl, id, fault) ==
    LET out == api_get_video(tbl, id)
    IN  api_response(tbl, tbl, out, fault, NotFoundMessage(id), out.video)

api_update_video_http(tbl, id, title, youtube_id, now, fault) ==
    LET out == api_update_video(tbl, id, title, youtube_id, now)
    IN  api_response(tbl, out.tbl, out, fault,
                     IF out.result = "Validation"
                     THEN <<"Validation error: ">> \o InvalidFields(title, youtube_id)
                     ELSE NotFoundMessage(id),
                     out.video)

api_delete_video_http(tbl, id, fault) ==
    LET out == api_delete_video(tbl, id)
    IN  api_response(tbl, out.tbl, out, fault, NotFoundMessage(id),
                     {[message |-> <<"Video with id ", ToString(id), " deleted">>]})

HttpCreateRequests ==
    {<<<<98>>, Rep(97, YoutubeIdLen)>>, <<<<>>, Rep(97, YoutubeIdLen)>>}

HttpUpdates == {<<{<<97>>}, {}>>, <<{}, {Rep(121, YoutubeIdLen - 1)}>>}

HttpIds == 1..MaxHttpVideos

HttpQueries ==
    {NoQuery, Query({}, {}, {<<97>>}, {}, {}), Query({}, {}, {}, {S_title}, {S_asc})}

HttpCall(op, route, id, title, youtube_id, query, fault, out) ==
    [NoCall EXCEPT !.op = op, !.route = route, !.id = id, !.title = title,
                   !.youtube_id = youtube_id, !.query = query,
                   !.search = query.search, !.fault = fault,
                   !.result = out.result, !.status = out.status,
                   !.body = out.body, !.calls = out.calls,
                   !.content_type = IF out.body = {} THEN "" ELSE "application/json"]

V1CreateVideo ==
    \E req \in HttpCreateRequests, fault \in Faults :
        \E out \in
            {VideoController_create_video(videos, seq, req[1], req[2], clock + 1,
                                          fault)} :
            LET wrote == out.result = "Ok"
            IN  /\ wrote => (seq <= MaxHttpVideos /\ clock < MaxHttpClock)
                /\ videos' = out.tbl
                /\ seq' = IF wrote THEN seq + 1 ELSE seq
                /\ clock' = IF wrote THEN clock + 1 ELSE clock
                /\ last' = HttpCall("create_video", "/api/v1/videos", 0, {req[1]},
                                    {req[2]}, NoQuery, fault, out)
                /\ UNCHANGED <<written, peer, tasks>>

V1ListVideos ==
    \E query \in HttpQueries, fault \in Faults :
        \E out \in
            {VideoController_list_videos(videos, query, fault)} :
            /\ last' = HttpCall("list_videos", "/api/v1/videos", 0, {}, {}, query,
                                fault, out)
            /\ UNCHANGED <<videos, seq, clock, written, peer, tasks>>

V1GetVideo ==
    \E id \in HttpIds, fault \in Faults :
        \E out \in
            {VideoController_get_video(videos, id, fault)} :
            /\ last' = HttpCall("get_video", "/api/v1/videos", id, {}, {}, NoQuery,
                                fault, out)
            /\ UNCHANGED <<videos, seq, clock, written, peer, tasks>>

V1UpdateVideo ==
    \E id \in HttpIds, req \in HttpUpdates, fault \in Faults :
        \E out \in
            {VideoController_update_video(videos, id, req[1], req[2], clock + 1,
                                          fault)} :
            LET wrote == out.result = "Ok"
            IN  /\ wrote => clock < MaxHttpClock
                /\ videos' = out.tbl
                /\ clock' = IF wrote THEN clock + 1 ELSE clock
                /\ last' = HttpCall("update_video", "/api/v1/videos", id, req[1],
                                    req[2], NoQuery, fault, out)
                /\ UNCHANGED <<seq, written, peer, tasks>>

V1DeleteVideo ==
    \E id \in HttpIds, tick \in 0..1, fault \in Faults :
        LET t1 == clock + 1
            t2 == t1 + tick
        IN  \E out \in
                {VideoController_delete_video(videos, id, t1, t2, fault)} :
                LET wrote == out.result = "Ok"
                IN  /\ wrote => t2 <= MaxHttpClock
                    /\ videos' = out.tbl
                    /\ clock' = IF wrote THEN t2 ELSE clock
                    /\ last' = HttpCall("delete_video", "/api/v1/videos", id, {}, {},
                                        NoQuery, fault, out)
                    /\ UNCHANGED <<seq, written, peer, tasks>>

ApiCreateVideo ==
    \E req \in HttpCreateRequests, fault \in Faults :
        \E out \in
            {api_create_video_http(videos, seq, req[1], req[2], clock + 1, fault)} :
            LET wrote == out.result = "Ok"
            IN  /\ wrote => (seq <= MaxHttpVideos /\ clock < MaxHttpClock)
                /\ videos' = out.tbl
                /\ seq' = IF wrote THEN seq + 1 ELSE seq
                /\ clock' = IF wrote THEN clock + 1 ELSE clock
                /\ last' = HttpCall("create_video", "/videos", 0, {req[1]}, {req[2]},
                                    NoQuery, fault, out)
                /\ UNCHANGED <<written, peer, tasks>>

ApiListVideos ==
    \E query \in HttpQueries, fault \in Faults :
        \E out \in
            {api_list_videos_http(videos, query, fault)} :
            /\ last' = HttpCall("list_videos", "/videos", 0, {}, {}, query, fault, out)
            /\ UNCHANGED <<videos, seq, clock, written, peer, tasks>>

ApiGetVideo ==
    \E id \in HttpIds, fault \in Faults :
        \E out \in
            {api_get_video_http(videos, id, fault)} :
            /\ last' = HttpCall("get_video", "/videos", id, {}, {}, NoQuery, fault, out)
            /\ UNCHANGED <<videos, seq, clock, written, peer, tasks>>

ApiUpdateVideo ==
    \E id \in HttpIds, req \in HttpUpdates, fault \in Faults :
        \E out \in
            {api_update_video_http(videos, id, req[1], req[2], clock + 1, fault)} :
            LET wrote == out.result = "Ok"
            IN  /\ wrote => clock < MaxHttpClock
                /\ videos' = out.tbl
                /\ clock' = IF wrote THEN clock + 1 ELSE clock
                /\ last' = HttpCall("update_video", "/videos", id, req[1], req[2],
                                    NoQuery, fault, out)
                /\ UNCHANGED <<seq, written, peer, tasks>>

ApiDeleteVideo ==
    \E id \in HttpIds, fault \in Faults :
        \E out \in
            {api_delete_video_http(videos, id, fault)} :
            /\ videos' = out.tbl
            /\ last' = HttpCall("delete_video", "/videos", id, {}, {}, NoQuery, fault,
                                out)
            /\ UNCHANGED <<seq, clock, written, peer, tasks>>

NextHttp ==
    \/ V1CreateVideo \/ V1ListVideos \/ V1GetVideo \/ V1UpdateVideo \/ V1DeleteVideo
    \/ ApiCreateVideo \/ ApiListVideos \/ ApiGetVideo \/ ApiUpdateVideo
    \/ ApiDeleteVideo

SpecHttp == Init /\ [][NextHttp]_vars


(***************************************************************************)
(* The application app.rs configures: index at / and the five /videos      *)
(* handlers; a GET on any other path gets ntex's default 404.              *)
(***************************************************************************)
index ==
    [status |-> 200, content_type |-> "text/plain",
     body |-> {[text |-> "Welcome to Video API!"]}]

default_service == [status |-> 404, content_type |-> "", body |-> {}]

IndexPaths == {"/", "/not-exists"}

config_app_get(path) == IF path = "/" THEN index ELSE default_service

AppGet ==
    \E path \in IndexPaths :
        \E out \in
            {config_app_get(path)} :
            /\ last' = [NoCall EXCEPT !.op = "get", !.route = path,
                          !.result = IF path = "/" THEN "Ok" ELSE "NoRoute",
                          !.status = out.status, !.body = out.body,
                          !.content_type = out.content_type]
            /\ UNCHANGED <<videos, seq, clock, written, peer, tasks>>

NextApp ==
    \/ AppGet
    \/ ApiCreateVideo \/ ApiListVideos \/ ApiGetVideo \/ ApiUpdateVideo
    \/ ApiDeleteVideo

SpecApp == Init /\ [][NextApp]_vars


(***************************************************************************)
(* The two applications side by side: each request goes to the             *)
(* /api/v1/videos handler, working on videos, seq and clock, and to the    *)
(* /videos handler, working on peer.  Both start from the same table, no   *)
(* statement fails, and the two handlers of a request read the same clock  *)
(* value, so that equal timestamps mean equal times of the requests.       *)
(***************************************************************************)
StartStates ==
    {[videos |-> {}, seq |-> 1, clock |-> 0],
     [videos |-> {[id |-> 1, title |-> <<97>>, youtube_id |-> Rep(97, YoutubeIdLen),
                   created_at |-> 1, updated_at |-> 2, deleted_at |-> {2}]},
      seq |-> 2, clock |-> 2]}

InitBoth ==
    \E s \in StartStates :
        /\ videos = s.videos
        /\ seq = s.seq
        /\ clock = s.clock
        /\ last = NoCall
        /\ written = <<>>
        /\ peer = [videos |-> s.videos, seq |-> s.seq, last |-> NoCall]
        /\ tasks = NoTasks

BothCreateVideo ==
    \E req \in HttpCreateRequests :
        \E out \in
            {VideoController_create_video(videos, seq, req[1], req[2], clock + 1, {})},
          pout \in
            {api_create_video_http(peer.videos, peer.seq, req[1], req[2],
                                   clock + 1, {})} :
            LET wrote == out.result = "Ok"
                pwrote == pout.result = "Ok"
            IN  /\ wrote => seq <= MaxHttpVideos
                /\ pwrote => peer.seq <= MaxHttpVideos
                /\ (wrote \/ pwrote) => clock < MaxHttpClock
                /\ videos' = out.tbl
                /\ seq' = IF wrote THEN seq + 1 ELSE seq
                /\ clock' = IF wrote \/ pwrote THEN clock + 1 ELSE clock
                /\ last' = HttpCall("create_video", "/api/v1/videos", 0, {req[1]},
                                    {req[2]}, NoQuery, {}, out)
                /\ UNCHANGED tasks
                /\ peer' = [videos |-> pout.tbl,
                            seq |-> IF pwrote THEN peer.seq + 1 ELSE peer.seq,
                            last |-> HttpCall("create_video", "/videos", 0, {req[1]},
                                              {req[2]}, NoQuery, {}, pout)]
                /\ UNCHANGED written

BothListVideos ==
    \E query \in HttpQueries :
        \E out \in
            {VideoController_list_videos(videos, query, {})},
          pout \in
            {api_list_videos_http(peer.videos, query, {})} :
            /\ last' = HttpCall("list_videos", "/api/v1/videos", 0, {}, {}, query, {},
                                out)
            /\ UNCHANGED tasks
            /\ peer' = [peer EXCEPT !.last =
                          HttpCall("list_videos", "/videos", 0, {}, {}, query, {}, pout)]
            /\ UNCHANGED <<videos, seq, clock, written>>

BothGetVideo ==
    \E id \in HttpIds :
        \E out \in
            {VideoController_get_video(videos, id, {})},
          pout \in
            {api_get_video_http(peer.videos, id, {})} :
            /\ last' = HttpCall("get_video", "/api/v1/videos", id, {}, {}, NoQuery, {},
                                out)
            /\ UNCHANGED tasks
            /\ peer' = [peer EXCEPT !.last =
                          HttpCall("get_video", "/videos", id, {}, {}, NoQuery, {}, pout)]
            /\ UNCHANGED <<videos, seq, clock, written>>

BothUpdateVideo ==
    \E id \in HttpIds, req \in HttpUpdates :
        \E out \in
            {VideoController_update_video(videos, id, req[1], req[2], clock + 1, {})},
          pout \in
            {api_update_video_http(peer.videos, id, req[1], req[2], clock + 1,
                                   {})} :
            LET wrote == out.result = "Ok"
                pwrote == pout.result = "Ok"
            IN  /\ (wrote \/ pwrote) => clock < MaxHttpClock
                /\ videos' = out.tbl
                /\ clock' = IF wrote \/ pwrote THEN clock + 1 ELSE clock
                /\ last' = HttpCall("update_video", "/api/v1/videos", id, req[1],
                                    req[2], NoQuery, {}, out)
                /\ UNCHANGED tasks
                /\ peer' = [peer EXCEPT
                              !.videos = pout.tbl,
                              !.last = HttpCall("update_video", "/videos", id, req[1],
                                                req[2], NoQuery, {}, pout)]
                /\ UNCHANGED <<seq, written>>

BothDeleteVideo ==
    \E id \in HttpIds :
        \E out \in
            {VideoController_delete_video(videos, id, clock + 1, clock + 1, {})},
          pout \in
            {api_delete_video_http(peer.videos, id, {})} :
            LET wrote == out.result = "Ok"
            IN  /\ wrote => clock < MaxHttpClock
                /\ videos' = out.tbl
                /\ clock' = IF wrote THEN clock + 1 ELSE clock
                /\ last' = HttpCall("delete_video", "/api/v1/videos", id, {}, {},
                                    NoQuery, {}, out)
                /\ UNCHANGED tasks
                /\ peer' = [peer EXCEPT
                              !.videos = pout.tbl,
                              !.last = HttpCall("delete_video", "/videos", id, {}, {},
                                                NoQuery, {}, pout)]
                /\ UNCHANGED <<seq, written>>

NextBoth ==
    \/ BothCreateVideo \/ BothListVideos \/ BothGetVideo \/ BothUpdateVideo
    \/ BothDeleteVideo

SpecBoth == InitBoth /\ [][NextBoth]_vars


(***************************************************************************)
(* Concurrent requests on /api/v1/videos.  A handler runs from one await   *)
(* to the next: every statement it sends to the table is a step of its     *)
(* own, nothing holds a transaction or a lock across two statements, and   *)
(* the steps of the requests in flight interleave freely.  The clock is    *)
(* read between the statements; two readings may be equal.                 *)
(***************************************************************************)
ConcStart ==
    [videos |-> {[id |-> 1, title |-> <<97>>, youtube_id |-> Rep(97, YoutubeIdLen),
                  created_at |-> 1, updated_at |-> 1, deleted_at |-> {}]},
     seq |-> 2, clock |-> 1]

InitConc ==
    /\ videos = ConcStart.videos
    /\ seq = ConcStart.seq
    /\ clock = ConcStart.clock
    /\ last = NoCall
    /\ written = <<>>
    /\ peer = NoPeer
    /\ tasks = NoTasks

ConcIds == {1, 2}

ConcUpdates ==
    {<<{<<98>>}, {}>>,
     <<{}, {Rep(121, YoutubeIdLen)}>>,
     <<{<<99>>}, {Rep(122, YoutubeIdLen)}>>,
     <<{<<100>>}, {Rep(120, YoutubeIdLen)}>>,
     <<{<<>>}, {}>>}

ConcCreateRequests == {<<<<100>>, Rep(98, YoutubeIdLen)>>, <<<<>>, Rep(98, YoutubeIdLen)>>}

ConcQueries == {NoQuery, Query({1}, {1}, {}, {}, {})}

Begin(op, id, title, youtube_id) ==
    [NoTask EXCEPT !.op = op, !.id = id, !.title = title, !.youtube_id = youtube_id]

Done(task, result) == [task EXCEPT !.pc = "done", !.result = result]

\* The ActiveModel VideoRepository::update builds from the row it found.
VideoRepository_update_ActiveModel(video, title, youtube_id) ==
    LET am0 == IntoActiveModel(video)
        am1 == IF title # {} THEN SetCol(am0, "title", One(title)) ELSE am0
    IN  IF youtube_id # {} THEN SetCol(am1, "youtube_id", One(youtube_id)) ELSE am1

\* update_video: validation, then the SELECT of find_by_id.
ConcUpdateFind ==
    \E p \in Tasks : \E id \in ConcIds : \E u \in ConcUpdates :
        /\ tasks[p].pc = "idle"
        /\ LET task == Begin("update_video", id, u[1], u[2])
               found == VideoRepository_find_by_id(videos, id)
           IN  tasks' = [tasks EXCEPT ![p] =
                   IF ~UpdateVideoRequest_validate(u[1], u[2])
                   THEN Done(task, "Validation")
                   ELSE IF found = {}
                   THEN Done(task, "NotFound")
                   ELSE [task EXCEPT !.pc = "save", !.found = found]]
        /\ UNCHANGED <<videos, seq, clock, last, written, peer>>

\* update_video: the ActiveModel is filled and before_save reads the clock.
ConcUpdateSave ==
    \E p \in Tasks : \E tick \in 0..1 :
        /\ tasks[p].pc = "save" /\ tasks[p].op = "update_video"
        /\ clock + tick <= MaxConcClock
        /\ LET now == clock + tick
               am == VideoRepository_update_ActiveModel(
                         One(tasks[p].found), tasks[p].title, tasks[p].youtube_id)
           IN  /\ tasks' = [tasks EXCEPT ![p].pc = "exec",
                                         ![p].am = {before_save(am, FALSE, now, now)}]
               /\ clock' = now
        /\ UNCHANGED <<videos, seq, last, written, peer>>

\* update_video: the UPDATE and the row it returns.
ConcUpdateExec ==
    \E p \in Tasks :
        /\ tasks[p].pc = "exec" /\ tasks[p].op = "update_video"
        /\ LET am == One(tasks[p].am)
               tbl == ExecUpdate(videos, am)
           IN  /\ videos' = tbl
               /\ tasks' = [tasks EXCEPT ![p] =
                      [Done(tasks[p], "Ok") EXCEPT
                          !.video = {VideoResponse(One(Returning(tbl, am)))}]]
        /\ UNCHANGED <<seq, clock, last, written, peer>>

\* delete_video: the SELECT of find_by_id.
ConcDeleteFind ==
    \E p \in Tasks : \E id \in ConcIds :
        /\ tasks[p].pc = "idle"
        /\ LET task == Begin("delete_video", id, {}, {})
               found == VideoRepository_find_by_id(videos, id)
           IN  tasks' = [tasks EXCEPT ![p] =
                   IF found = {}
                   THEN Done(task, "NotFound")
                   ELSE [task EXCEPT !.pc = "save", !.found = found]]
        /\ UNCHANGED <<videos, seq, clock, last, written, peer>>

\* delete_video: deleted_at is Set to a reading of the clock, then
\* before_save takes another.
ConcDeleteSave ==
    \E p \in Tasks : \E tick1 \in 0..1 : \E tick2 \in 0..1 :
        /\ tasks[p].pc = "save" /\ tasks[p].op = "delete_video"
        /\ clock + tick1 + tick2 <= MaxConcClock
        /\ LET t1 == clock + tick1
               t2 == t1 + tick2
               am == SetCol(IntoActiveModel(One(tasks[p].found)), "deleted_at", {t1})
           IN  /\ tasks' = [tasks EXCEPT ![p].pc = "exec",
                                         ![p].am = {before_save(am, FALSE, t2, t2)}]
               /\ clock' = t2
        /\ UNCHANGED <<videos, seq, last, written, peer>>

\* delete_video: the UPDATE.
ConcDeleteExec ==
    \E p \in Tasks :
        /\ tasks[p].pc = "exec" /\ tasks[p].op = "delete_video"
        /\ videos' = ExecUpdate(videos, One(tasks[p].am))
        /\ tasks' = [tasks EXCEPT ![p] = Done(tasks[p], "Ok")]
        /\ UNCHANGED <<seq, clock, last, written, peer>>

\* create_video: validation, then Default::default() reads the clock.
ConcCreateNew ==
    \E p \in Tasks : \E req \in ConcCreateRequests : \E tick \in 0..1 :
        /\ tasks[p].pc = "idle"
        /\ clock + tick <= MaxConcClock
        /\ LET task == Begin("create_video", 0, {req[1]}, {req[2]})
               now == clock + tick
               am == SetCol(SetCol(ActiveModel_new(now), "title", req[1]),
                            "youtube_id", req[2])
           IN  IF ~CreateVideoRequest_validate(req[1], req[2])
               THEN /\ tasks' = [tasks EXCEPT ![p] = Done(task, "Validation")]
                    /\ UNCHANGED clock
               ELSE /\ tasks' = [tasks EXCEPT ![p] =
                           [task EXCEPT !.pc = "exec", !.am = {am}]]
                    /\ clock' = now
        /\ UNCHANGED <<videos, seq, last, written, peer>>

\* create_video: the INSERT and the row it returns.
ConcCreateInsert ==
    \E p \in Tasks :
        /\ tasks[p].pc = "exec" /\ tasks[p].op = "create_video"
        /\ LET video == ExecInsert(One(tasks[p].am), seq)
           IN  /\ videos' = videos \cup {video}
               /\ tasks' = [tasks EXCEPT ![p] =
                      [Done(tasks[p], "Ok") EXCEPT
                          !.id = video.id, !.video = {VideoResponse(video)}]]
        /\ seq' = seq + 1
        /\ UNCHANGED <<clock, last, written, peer>>

\* get_video has one statement.
ConcGetVideo ==
    \E p \in Tasks : \E id \in ConcIds : \E out \in {VideoService_get_video(videos, id)} :
        /\ tasks[p].pc = "idle"
        /\ tasks' = [tasks EXCEPT ![p] =
               [Done(Begin("get_video", id, {}, {}), out.result) EXCEPT
                   !.video = out.video]]
        /\ UNCHANGED <<videos, seq, clock, last, written, peer>>

\* list_videos: the COUNT of num_items.
ConcListCount ==
    \E p \in Tasks : \E query \in ConcQueries :
        /\ tasks[p].pc = "idle"
        /\ tasks' = [tasks EXCEPT ![p] =
               [Begin("list_videos", 0, {}, {}) EXCEPT
                   !.pc = "fetch", !.query = query,
                   !.total = VideoRepository_list(videos, query.page,
                                 query.per_page, query.search).total]]
        /\ UNCHANGED <<videos, seq, clock, last, written, peer>>

\* list_videos: the SELECT of fetch_page, then the response of the service.
ConcListFetch ==
    \E p \in Tasks :
        /\ tasks[p].pc = "fetch"
        /\ LET query == tasks[p].query
               fetched == VideoRepository_list(videos, query.page,
                              query.per_page, query.search).videos
               per_page == UnwrapOr(query.per_page, DefaultPerPage)
           IN  tasks' = [tasks EXCEPT ![p] =
                   [Done(tasks[p], "Ok") EXCEPT
                       !.videos = [i \in 1..Len(fetched) |-> VideoResponse(fetched[i])],
                       !.page = UnwrapOr(query.page, DefaultPage),
                       !.per_page = per_page,
                       !.total_pages = CeilDiv(tasks[p].total, per_page)]]
        /\ UNCHANGED <<videos, seq, clock, last, written, peer>>

NextConc ==
    \/ ConcUpdateFind \/ ConcUpdateSave \/ ConcUpdateExec
    \/ ConcDeleteFind \/ ConcDeleteSave \/ ConcDeleteExec
    \/ ConcCreateNew \/ ConcCreateInsert
    \/ ConcGetVideo
    \/ ConcListCount \/ ConcListFetch

SpecConc == InitConc /\ [][NextConc]_vars

(***************************************************************************)
(* The list queries at the edges of u64: page = 0 and per_page = 0, which  *)
(* Query<VideoQuery> accepts.  What `page - 1` does for page = 0 depends   *)
(* on the build: with overflow checks (debug) it panics, without them      *)
(* (release) it wraps to u64::MAX.  What the statement then does with an   *)
(* offset of 2^63 or more depends on how the driver binds a u64 (as the    *)
(* unsigned value, beyond every row, or as an i64, negative, which SQLite  *)
(* reads as 0), and a page size of 0 is either refused by an assertion of  *)
(* the paginator or sent as LIMIT 0, depending on the ORM version.  An     *)
(* environment fixes the three.                                            *)
(***************************************************************************)
Envs ==
    [build : {"debug", "release"}, offset : {"unsigned", "signed"},
     page_size_assert : BOOLEAN]

PagePages == {{}, {0}, {1}, {2}}

PagePerPages == {{}, {0}, {1}}

PageQueries ==
    {Query(page, per_page, {}, {}, {}) : page \in PagePages, per_page \in PagePerPages}

Panic == [result |-> "Panic", overflow |-> FALSE]

\* The rows a statement gives for OFFSET offset LIMIT limit, offset a u64.
OffsetLimit_u64(rows, offset, limit, env) ==
    IF offset >= 0 THEN OffsetLimit(rows, offset, limit)
    ELSE IF env.offset = "signed" THEN OffsetLimit(rows, 0, limit)
    ELSE <<>>

\* db.rs list_videos for every u64 page and per_page.
db_list_videos_u64(tbl, query, env) ==
    LET page == UnwrapOr(query.page, DefaultPage)
        per_page == UnwrapOr(query.per_page, DefaultPerPage)
        offset == (page - 1) * per_page
        first == db_list_videos(tbl, [query EXCEPT !.page = {1}, !.per_page = {Cardinality(tbl) + 1}])
    IN  IF page < 1 /\ env.build = "debug"
        THEN [Panic EXCEPT !.overflow = TRUE]
        ELSE [result |-> "Ok", overflow |-> page < 1,
              videos |-> OffsetLimit_u64(first.videos, offset, per_page, env),
              total |-> first.total, page |-> page, per_page |-> per_page,
              total_pages |-> CeilDiv(first.total, per_page)]

\* VideoService::list_videos over VideoRepository::list, likewise.
VideoService_list_videos_u64(tbl, query, env) ==
    LET page == UnwrapOr(query.page, DefaultPage)
        per_page == UnwrapOr(query.per_page, DefaultPerPage)
        first == VideoRepository_list(tbl, {1}, {Cardinality(tbl) + 1}, query.search)
    IN  IF per_page = 0 /\ env.page_size_assert
        THEN Panic
        ELSE IF page < 1 /\ env.build = "debug"
        THEN [Panic EXCEPT !.overflow = TRUE]
        ELSE [result |-> "Ok", overflow |-> page < 1,
              videos |-> OffsetLimit_u64(first.videos, (page - 1) * per_page,
                                         per_page, env),
              total |-> first.total, page |-> page, per_page |-> per_page,
              total_pages |-> CeilDiv(first.total, per_page)]

PageCall(op, query, out) ==
    IF out.result = "Panic"
    THEN [NoCall EXCEPT !.op = op, !.query = query, !.result = "Panic",
                        !.overflow = out.overflow]
    ELSE [NoCall EXCEPT !.op = op, !.query = query, !.result = out.result,
                        !.overflow = out.overflow,
                        !.videos = [i \in 1..Len(out.videos) |->
                                       VideoResponse(out.videos[i])],
                        !.total = out.total, !.page = out.page,
                        !.per_page = out.per_page,
                        !.total_pages = out.total_pages]

PageListVideos ==
    \E query \in PageQueries : \E env \in Envs :
        \E out \in {VideoService_list_videos_u64(videos, query, env)} :
            /\ last' = PageCall("list_videos", query, out)
            /\ UNCHANGED <<videos, seq, clock, written, peer, tasks>>

PageDbListVideos ==
    \E query \in PageQueries : \E env \in Envs :
        \E out \in {db_list_videos_u64(videos, query, env)} :
            /\ last' = PageCall("db_list_videos", query, out)
            /\ UNCHANGED <<videos, seq, clock, written, peer, tasks>>

NextPage == ListCreateVideo \/ ListDeleteVideo \/ PageListVideos \/ PageDbListVideos

SpecPage == Init /\ [][NextPage]_vars

(***************************************************************************)
(* The validators alone, applied to strings whose lengths lie within       *)
(* Slack of the bounds of the length attributes.                           *)
(***************************************************************************)
Near(n, b) == n >= b - Slack /\ n <= b + Slack

BoundaryTitles ==
    {Rep(98, n) : n \in {k \in 0..(TitleMax + Slack) :
                            Near(k, TitleMin) \/ Near(k, TitleMax)}}

BoundaryYoutubeIds ==
    {Rep(121, n) : n \in {k \in 0..(YoutubeIdLen + Slack) : Near(k, YoutubeIdLen)}}

Verdict(ok) == IF ok THEN "Ok" ELSE "Validation"

ValidateCreate ==
    \E title \in BoundaryTitles, youtube_id \in BoundaryYoutubeIds :
        /\ UNCHANGED <<peer, tasks>>
        /\ last' = [NoCall EXCEPT !.op = "validate_create", !.title = {title},
                      !.youtube_id = {youtube_id},
                      !.result = Verdict(CreateVideoRequest_validate(title, youtube_id))]
        /\ UNCHANGED <<videos, seq, clock, written>>

ValidateUpdate ==
    \E title \in Option(BoundaryTitles), youtube_id \in Option(BoundaryYoutubeIds) :
        /\ UNCHANGED <<peer, tasks>>
        /\ last' = [NoCall EXCEPT !.op = "validate_update", !.title = title,
                      !.youtube_id = youtube_id,
                      !.result = Verdict(UpdateVideoRequest_validate(title, youtube_id))]
        /\ UNCHANGED <<videos, seq, clock, written>>

NextValidate == ValidateCreate \/ ValidateUpdate

SpecValidate == Init /\ [][NextValidate]_vars


(***************************************************************************)
(* Properties.  The helpers below read the table and the last call only;   *)
(* none of them uses an operator of the model of the handlers.             *)
(***************************************************************************)
RowsOf(tbl, id) == {r \in tbl : r.id = id}

ActiveRowsOf(tbl, id) == {r \in tbl : r.id = id /\ r.deleted_at = {}}

SoftDeletedRowsOf(tbl, id) == {r \in tbl : r.id = id /\ r.deleted_at # {}}

LengthsValid(title, youtube_id) ==
    /\ \A t \in title : Len(t) >= 1 /\ Len(t) <= 100
    /\ \A y \in youtube_id : Len(y) = 11

Given(opt, default) == IF opt = {} THEN default ELSE CHOOSE x \in opt : TRUE

HasSubstring(s, sub) ==
    \E i \in 0..Len(s) : \E n \in 0..(Len(s) - i) :
        [k \in 1..n |-> s[i + k]] = sub

StrLeq(a, b) ==
    \E k \in 0..Len(a) :
        /\ k <= Len(b)
        /\ \A j \in 1..k : a[j] = b[j]
        /\ \/ k = Len(a)
           \/ k < Len(b) /\ a[k + 1] < b[k + 1]

ActiveRows(tbl) == {r \in tbl : r.deleted_at = {}}

\* C1: a video whose deleted_at is non-null is never returned by get_video,
\* which answers NotFound for its id, and is neither among the videos nor
\* counted in the total of a list_videos response.
SoftDeletedNeverRead ==
    /\ last.op = "get_video" =>
          /\ SoftDeletedRowsOf(videos, last.id) # {} =>
                (last.result = "NotFound" /\ last.video = {})
          /\ \A v \in last.video : v.deleted_at = {}
    /\ last.op = "list_videos" =>
          /\ \A i \in DOMAIN last.videos :
                /\ last.videos[i].deleted_at = {}
                /\ SoftDeletedRowsOf(videos, last.videos[i].id) = {}
          /\ last.total <= Cardinality({r \in videos : r.deleted_at = {}})

SoftDeletedNeverRead_Witness ==
    \/ /\ last.op = "get_video"
       /\ last.result = "NotFound"
       /\ SoftDeletedRowsOf(videos, last.id) # {}
    \/ /\ last.op = "list_videos"
       /\ last.total = 1
       /\ \E r \in videos : r.deleted_at # {}

\* C2: delete_video on an id with no active row (never created or already
\* soft-deleted) answers NotFound and leaves every row unchanged.
DeleteWithoutActiveRowIsNotFound ==
    [][(last'.op = "delete_video" /\ ActiveRowsOf(videos, last'.id) = {})
          => (last'.result = "NotFound" /\ videos' = videos)]_vars

DeleteWithoutActiveRowIsNotFound_Witness ==
    /\ last.op = "delete_video"
    /\ last.result = "NotFound"
    /\ SoftDeletedRowsOf(videos, last.id) # {}

\* C3: create_video with a title of 1..100 characters and a youtube_id of 11
\* returns id > 0, the given title and youtube_id, created_at = updated_at
\* and deleted_at = null, and that row is the one stored.
CreateValidReturnsStoredRow ==
    (last.op = "create_video" /\ LengthsValid(last.title, last.youtube_id)) =>
        /\ last.result = "Ok"
        /\ \E v \in last.video :
              /\ v.id > 0
              /\ {v.title} = last.title
              /\ {v.youtube_id} = last.youtube_id
              /\ v.created_at = v.updated_at
              /\ v.deleted_at = {}
              /\ RowsOf(videos, v.id) = {v}

CreateValidReturnsStoredRow_Witness ==
    /\ last.op = "create_video"
    /\ last.result = "Ok"
    /\ \E v \in last.video : Len(v.title) = 100 /\ v.id = 2

\* C4: create_video with an empty title, a title of more than 100
\* characters or a youtube_id of another length than 11 answers
\* ValidationError, sends no statement to the storage and leaves the stored
\* rows unchanged.
CreateInvalidIsRejected ==
    [][(last'.op = "create_video" /\ ~LengthsValid(last'.title, last'.youtube_id))
          => /\ last'.result = "Validation"
             /\ last'.calls = <<>>
             /\ videos' = videos
             /\ seq' = seq]_vars

CreateInvalidIsRejected_Witness ==
    /\ last.op = "create_video"
    /\ last.result = "Validation"
    /\ \E t \in last.title : Len(t) = 101
    /\ videos # {}

\* C5: for every active video, get_video(id) returns that id with the title
\* and youtube_id of the most recent successful create_video or
\* update_video on it.
GetReturnsLastWrite ==
    \A r \in videos :
        (r.deleted_at = {} /\ last.op = "get_video" /\ last.id = r.id) =>
            /\ last.result = "Ok"
            /\ r.id \in DOMAIN written
            /\ \E v \in last.video :
                  /\ v.id = r.id
                  /\ v.title = written[r.id].title
                  /\ v.youtube_id = written[r.id].youtube_id

GetReturnsLastWrite_Witness ==
    /\ last.op = "get_video"
    /\ last.result = "Ok"
    /\ \E v \in last.video : v.updated_at > v.created_at /\ Len(v.title) = 1

\* C6: get_video and update_video (with a valid request) on an id that was
\* never created answer NotFound and leave the store unchanged.
NeverCreatedIsNotFound ==
    [][(/\ last'.op \in {"get_video", "update_video"}
        /\ RowsOf(videos, last'.id) = {}
        /\ LengthsValid(last'.title, last'.youtube_id))
          => (last'.result = "NotFound" /\ videos' = videos /\ seq' = seq)]_vars

NeverCreatedIsNotFound_Witness ==
    /\ last.op = "update_video"
    /\ last.result = "NotFound"
    /\ RowsOf(videos, last.id) = {}
    /\ last.title # {}
    /\ videos # {}

\* C7: a successful update_video changes, on the target row, exactly the
\* supplied fields and updated_at (an omitted field, id, created_at and
\* deleted_at keep their values), changes no other row, and leaves
\* updated_at > created_at.
UpdateChangesOnlySuppliedFields ==
    [][(last'.op = "update_video" /\ last'.result = "Ok") =>
          \E old \in videos, new \in videos' :
              /\ old.id = last'.id
              /\ new.id = last'.id
              /\ videos' \ {new} = videos \ {old}
              /\ new.title = IF last'.title = {} THEN old.title
                             ELSE One(last'.title)
              /\ new.youtube_id = IF last'.youtube_id = {} THEN old.youtube_id
                                  ELSE One(last'.youtube_id)
              /\ new.created_at = old.created_at
              /\ new.deleted_at = old.deleted_at
              /\ new.updated_at > new.created_at]_vars

UpdateChangesOnlySuppliedFields_Witness ==
    /\ last.op = "update_video"
    /\ last.result = "Ok"
    /\ last.title # {}
    /\ last.youtube_id = {}
    /\ Cardinality(videos) = 2

\* C8: update_video with no field supplied, on an active video, succeeds,
\* keeps title, youtube_id, created_at and deleted_at, and makes updated_at
\* strictly greater than it was.
EmptyUpdateOnlyAdvancesUpdatedAt ==
    [][(/\ last'.op = "update_video"
        /\ last'.title = {}
        /\ last'.youtube_id = {}
        /\ ActiveRowsOf(videos, last'.id) # {})
          => /\ last'.result = "Ok"
             /\ \E old \in videos, new \in videos' :
                   /\ old.id = last'.id
                   /\ videos' \ {new} = videos \ {old}
                   /\ new = [old EXCEPT !.updated_at = new.updated_at]
                   /\ new.updated_at > old.updated_at
                   /\ last'.video = {new}]_vars

EmptyUpdateOnlyAdvancesUpdatedAt_Witness ==
    /\ last.op = "update_video"
    /\ last.result = "Ok"
    /\ last.title = {}
    /\ last.youtube_id = {}
    /\ \E v \in last.video : v.updated_at > v.created_at

\* C9: every stored row has created_at <= updated_at, whichever insert path
\* created it.
CreatedAtNotAfterUpdatedAt ==
    \A r \in videos : r.created_at <= r.updated_at

\* C10: no two rows have the same id, a create never returns an id that a
\* row (active or soft-deleted) already has, and no call changes the id or
\* the created_at of a row.
IdsUniqueAndStable ==
    [][/\ \A r1, r2 \in videos' : r1.id = r2.id => r1 = r2
       /\ \A r \in videos :
             \E n \in videos' : n.id = r.id /\ n.created_at = r.created_at
       /\ (last'.op = "create_video" /\ last'.result = "Ok") =>
             \A v \in last'.video : RowsOf(videos, v.id) = {}]_vars

IdsUniqueAndStable_Witness ==
    /\ last.op = "create_video"
    /\ last.result = "Ok"
    /\ \E r \in videos : r.deleted_at # {}

\* C11: no service-layer call removes a row: every id stored before a call is
\* stored after it, and after a successful delete_video(id) a row with that
\* id is still stored and its deleted_at is non-null.
DeleteKeepsRow ==
    [][/\ \A r \in videos : RowsOf(videos', r.id) # {}
       /\ (last'.op = "delete_video" /\ last'.result = "Ok") =>
             /\ RowsOf(videos', last'.id) # {}
             /\ \A r \in RowsOf(videos', last'.id) : r.deleted_at # {}]_vars

DeleteKeepsRow_Witness ==
    /\ last.op = "delete_video"
    /\ last.result = "Ok"
    /\ SoftDeletedRowsOf(videos, last.id) # {}

\* C17: create_video and update_video validate before any storage call: a
\* request with an invalid supplied field is answered with a validation
\* error without a statement being sent to the store and without a change
\* of the table, also when the id of the update has no active row.
ValidationBeforeStorage ==
    [][(/\ last'.op \in {"create_video", "update_video"}
        /\ ~LengthsValid(last'.title, last'.youtube_id)) =>
          /\ last'.result = "Validation"
          /\ last'.calls = <<>>
          /\ videos' = videos]_vars

ValidationBeforeStorage_Witness ==
    /\ last.op = "update_video"
    /\ ~LengthsValid(last.title, last.youtube_id)
    /\ ActiveRowsOf(videos, last.id) = {}
    /\ SoftDeletedRowsOf(videos, last.id) # {}
    /\ last.result = "Validation"

\* C16: validation accepts a create request exactly when the title has 1 to
\* 100 characters and the youtube_id has 11, and an update request exactly
\* when every supplied field meets the same bound, an omitted field never
\* being a violation; titles of 1 and 100 characters are accepted, of 0 and
\* 101 rejected, and youtube_ids of 10 and 12 characters are rejected.
ValidationAcceptsExactlyBoundedLengths ==
    last.op \in {"validate_create", "validate_update"} =>
        LET title_ok == \A t \in last.title : 1 <= Len(t) /\ Len(t) <= 100
            youtube_id_ok == \A y \in last.youtube_id : Len(y) = 11
        IN  /\ (last.op = "validate_create") =>
                  (last.title # {} /\ last.youtube_id # {})
            /\ last.result = "Ok" <=> (title_ok /\ youtube_id_ok)
            /\ last.result = "Validation" <=> ~(title_ok /\ youtube_id_ok)

ValidationAcceptsExactlyBoundedLengths_Witness ==
    /\ last.op = "validate_update"
    /\ last.youtube_id = {}
    /\ \E t \in last.title : Len(t) = 100
    /\ last.result = "Ok"

\* C12: for page >= 1 and per_page >= 1 (1 and 10 when absent), list_videos
\* returns as total the number of all active rows matching the filter,
\* counted before pagination, and as videos the rows at positions
\* (page-1)*per_page up to (page-1)*per_page + per_page of the ordered
\* matching rows: exactly min(per_page, max(0, total - (page-1)*per_page))
\* of them.  Three rows with per_page = 2 and page = 1 give 2 videos and
\* total 3, and the default query over three rows gives all three.
ListReturnsRequestedPage ==
    last.op = "list_videos" =>
        LET page == Given(last.query.page, 1)
            per_page == Given(last.query.per_page, 10)
            offset == (page - 1) * per_page
            active == ActiveRows(videos)
            rest == IF last.total > offset THEN last.total - offset ELSE 0
            Newer(r) == Cardinality({o \in active : o.created_at > r.created_at})
        IN  /\ last.page = page
            /\ last.per_page = per_page
            /\ Len(last.videos) = IF per_page <= rest THEN per_page ELSE rest
            /\ \A i \in 1..Len(last.videos) :
                  \E r \in active : r.id = last.videos[i].id
            /\ last.query.search = {} =>
                  /\ last.total = Cardinality(active)
                  /\ \A i \in 1..Len(last.videos) :
                        \E r \in active :
                            /\ r.id = last.videos[i].id
                            /\ r.title = last.videos[i].title
                            /\ Newer(r) = offset + i - 1

ListReturnsRequestedPage_Witness ==
    /\ last.op = "list_videos"
    /\ last.query.page = {1}
    /\ last.query.per_page = {2}
    /\ Cardinality(ActiveRows(videos)) = 3
    /\ last.total = 3
    /\ Len(last.videos) = 2

\* C13: every list response has total_pages = ceil(total / per_page), with
\* per_page the effective page size the response echoes; the service and
\* db::list_videos compute the same value for the same total and per_page.
TotalPagesIsCeiling ==
    last.op \in {"list_videos", "db_list_videos"} =>
        /\ last.per_page = Given(last.query.per_page, 10)
        /\ last.total_pages >= 0
        /\ last.total_pages * last.per_page >= last.total
        /\ last.total_pages > 0 =>
              (last.total_pages - 1) * last.per_page < last.total

TotalPagesIsCeiling_Witness ==
    /\ last.op = "db_list_videos"
    /\ last.total = 3
    /\ last.per_page = 2
    /\ last.total_pages = 2

\* C14: list_videos with a non-empty search string s returns exactly the
\* active rows whose title contains s or whose youtube_id contains s, a row
\* matching by youtube_id alone included; with the search absent or empty
\* every active row matches.
SearchMatchesTitleOrYoutubeId ==
    last.op = "list_videos" =>
        LET s == Given(last.query.search, <<>>)
            matching == {r \in ActiveRows(videos) :
                            \/ s = <<>>
                            \/ HasSubstring(r.title, s)
                            \/ HasSubstring(r.youtube_id, s)}
        IN  /\ last.total = Cardinality(matching)
            /\ (last.page = 1 /\ last.total <= last.per_page) =>
                  {last.videos[i].id : i \in 1..Len(last.videos)}
                      = {r.id : r \in matching}

\* C15: list_videos orders the rows by the requested field (title,
\* youtube_id or created_at; created_at when absent or unrecognized) in the
\* requested direction (asc or desc; desc when absent or unrecognized), so
\* order_by=title with order_direction=asc yields non-decreasing titles.
ListOrderedAsRequested ==
    last.op = "list_videos" =>
        LET field == IF last.query.order_by = {S_title} THEN "title"
                     ELSE IF last.query.order_by = {S_youtube_id} THEN "youtube_id"
                     ELSE "created_at"
            asc == last.query.order_direction = {S_asc}
            Leq(x, y) == IF field = "created_at" THEN x <= y ELSE StrLeq(x, y)
        IN  \A i, j \in 1..Len(last.videos) :
                i < j => IF asc THEN Leq(last.videos[i][field], last.videos[j][field])
                                ELSE Leq(last.videos[j][field], last.videos[i][field])

\* C18: every domain error maps to one HTTP status and a JSON body
\* {"error": message}: a validation error to 400, not found to 404, a
\* storage error to 500; and no error outcome of a handler is answered with
\* a 2xx status.
ErrorsMapToStatus ==
    /\ last.result \in {"Validation", "NotFound", "Database"} =>
          /\ last.status = (CASE last.result = "Validation" -> 400
                              [] last.result = "NotFound" -> 404
                              [] last.result = "Database" -> 500)
          /\ last.body # {}
          /\ \A b \in last.body : DOMAIN b = {"error"}
    /\ last.result # "Ok" => ~(last.status >= 200 /\ last.status <= 299)
    /\ \A msg \in {<<"m">>} :
          /\ error_rs_AppError_error_response(
                 [kind |-> "ValidationError", msg |-> msg])
               = [status |-> 400, body |-> {[error |-> msg]}]
          /\ error_rs_AppError_error_response([kind |-> "NotFound", msg |-> msg])
               = [status |-> 404, body |-> {[error |-> msg]}]
          /\ error_rs_AppError_error_response([kind |-> "Database", msg |-> msg]).status
               = 500

ErrorsMapToStatus_Witness ==
    /\ last.route = "/api/v1/videos"
    /\ last.op = "update_video"
    /\ last.result = "NotFound"
    /\ last.status = 404
    /\ SoftDeletedRowsOf(videos, last.id) # {}

\* C19: two storage errors with different internal detail get the same
\* HTTP response on every route: status 500 and the generic message
\* "Internal server error", nothing of the detail.
StorageErrorsAreOpaque ==
    last.result = "Database" =>
        /\ last.status = 500
        /\ last.body = {[error |-> <<"Internal server error">>]}

\* C20: the two route families are interchangeable: the same requests, sent
\* to /videos and to /api/v1/videos from the same table, get the same
\* status codes and the same response data for create, get, list, update
\* and delete, and leave the same rows visible.  (The text of an error
\* message is not compared.)
RouteFamiliesAgree ==
    last.op # "none" =>
        /\ last.status = peer.last.status
        /\ (last.result = "Ok" /\ peer.last.result = "Ok") =>
              last.body = peer.last.body
        /\ ActiveRows(videos) = peer.videos

\* C30: a successful delete_video(id) changes only deleted_at of the target
\* row: its title, youtube_id, created_at and updated_at, and every field of
\* every other row, are the same before and after the call.
DeleteChangesOnlyDeletedAt ==
    [][(last'.op = "delete_video" /\ last'.result = "Ok") =>
          /\ \A r \in videos : r.id # last'.id => r \in videos'
          /\ \A r \in RowsOf(videos, last'.id) :
                \E n \in RowsOf(videos', last'.id) :
                    /\ n.title = r.title
                    /\ n.youtube_id = r.youtube_id
                    /\ n.created_at = r.created_at
                    /\ n.updated_at = r.updated_at]_vars

\* C22: GET / is answered by the index handler with status 200,
\* content-type text/plain and the body "Hello world!"; a GET on a path
\* with no registered route is answered with 404.
IndexSaysHelloWorld ==
    last.op = "get" =>
        IF last.route = "/"
        THEN /\ last.status = 200
             /\ last.content_type = "text/plain"
             /\ last.body = {[text |-> "Hello world!"]}
        ELSE last.status = 404

DeletedAtSetOnce ==
    /\ [](\A r \in videos :
            Cardinality({p \in DOMAIN tasks :
                            /\ tasks[p].op = "delete_video"
                            /\ tasks[p].result = "Ok"
                            /\ tasks[p].id = r.id}) <= 1)
    /\ [][\A r \in videos :
            r.deleted_at # {} =>
                \E n \in videos' : n.id = r.id /\ n.deleted_at = r.deleted_at]_vars

\* C24: every VideoResponse returned by create_video, get_video,
\* update_video or list_videos has deleted_at null, under any interleaving
\* with concurrent delete_video calls.
ResponsesAreActive ==
    \A p \in DOMAIN tasks :
        (tasks[p].pc = "done" /\ tasks[p].result = "Ok") =>
            /\ \A v \in tasks[p].video : v.deleted_at = {}
            /\ \A i \in DOMAIN tasks[p].videos : tasks[p].videos[i].deleted_at = {}

\* C25: update_video never writes to a soft-deleted row: once deleted_at of
\* a row is non-null, its title, youtube_id and updated_at never change
\* again, also when an update_video and a delete_video of the id interleave.
SoftDeletedRowsAreFrozen ==
    [][\A r \in videos :
          r.deleted_at # {} =>
              \E n \in videos' :
                  /\ n.id = r.id
                  /\ n.title = r.title
                  /\ n.youtube_id = r.youtube_id
                  /\ n.updated_at = r.updated_at]_vars

\* C27: updated_at of a row never decreases, under any interleaving of
\* update_video and delete_video calls on it.
UpdatedAtNeverDecreases ==
    [][\A r \in videos : \A n \in videos' :
          n.id = r.id => n.updated_at >= r.updated_at]_vars

\* C28: in every list_videos response the number of videos is at most
\* per_page and at most total, and total_pages * per_page >= total, also
\* when a create_video or delete_video runs between the count query and the
\* page-fetch query.
ListResponseConsistent ==
    \A p \in DOMAIN tasks :
        (tasks[p].op = "list_videos" /\ tasks[p].pc = "done") =>
            /\ Len(tasks[p].videos) <= tasks[p].per_page
            /\ Len(tasks[p].videos) <= tasks[p].total
            /\ tasks[p].total_pages * tasks[p].per_page >= tasks[p].total

AppliedInOrder(row, first, second) ==
    [title |-> Given(second.title, Given(first.title, row.title)),
     youtube_id |-> Given(second.youtube_id,
                          Given(first.youtube_id, row.youtube_id))]

SuccessfulUpdate(p, id) ==
    /\ tasks[p].op = "update_video"
    /\ tasks[p].pc = "done"
    /\ tasks[p].result = "Ok"
    /\ tasks[p].id = id

\* C26: when two concurrent update_video calls on the same id both succeed,
\* the final title and youtube_id of the row are those of applying both
\* updates in some serial order: per field the last writer wins, a field
\* only one call supplies keeps that call's value, and no update is applied
\* in part.
ConcurrentUpdatesSerialize ==
    \A p \in DOMAIN tasks : \A q \in DOMAIN tasks : \A r \in videos :
        (/\ p # q
         /\ SuccessfulUpdate(p, r.id)
         /\ SuccessfulUpdate(q, r.id)
         /\ \A o \in DOMAIN tasks \ {p, q} : ~SuccessfulUpdate(o, r.id))
        => \E row \in tasks[p].found :
              [title |-> r.title, youtube_id |-> r.youtube_id]
                  \in {AppliedInOrder(row, tasks[p], tasks[q]),
                       AppliedInOrder(row, tasks[q], tasks[p])}

ConcurrentUpdatesSerialize_Witness ==
    \E p \in DOMAIN tasks : \E q \in DOMAIN tasks : \E r \in videos :
        /\ p # q
        /\ SuccessfulUpdate(p, r.id)
        /\ SuccessfulUpdate(q, r.id)
        /\ tasks[p].found = tasks[q].found
        /\ tasks[p].title # {} /\ tasks[p].youtube_id = {}
        /\ tasks[q].title = {} /\ tasks[q].youtube_id # {}
        /\ r.title = One(tasks[p].title)
        /\ r.youtube_id = One(tasks[q].youtube_id)

\* C29: for every query the HTTP layer accepts, page = 0 and per_page = 0
\* included, list_videos completes with a well-formed paginated response or
\* a storage error: page - 1 and (page - 1) * per_page never underflow or
\* overflow, and total_pages is finite and consistent with total (0 when
\* total is 0).
ListHandlesEveryQuery ==
    last.op \in {"list_videos", "db_list_videos"} =>
        /\ last.result \in {"Ok", "Database"}
        /\ ~last.overflow
        /\ last.result = "Ok" =>
              /\ last.total_pages >= 0
              /\ last.total_pages * last.per_page >= last.total
              /\ last.total = 0 => last.total_pages = 0

=============================================================================
